---------------------------- MODULE Spec2Model ----------------------------
(***************************************************************************)
(* A model of rp-binary-info: the 'Binary Info' block that picotool finds  *)
(* in a firmware image.  The crate is a set of const constructors          *)
(* (src/src/lib.rs, src/src/entry.rs) and the example firmware             *)
(* (src/example/pico-example/src/main.rs) is a set of statics the linker   *)
(* lays out.  The model keeps the image as bytes: every record, table and  *)
(* header is written to memory in its #[repr(C)] little-endian layout of   *)
(* the 32-bit target, and every reading goes back through those bytes.     *)
(*                                                                         *)
(* Numbers.  TLC's integers are 32-bit signed, so a u32 that may exceed    *)
(* 2^31 - 1 (an id, a marker, an integer value) is the tuple of its four   *)
(* bytes, most significant first, as its hex literal is written in the     *)
(* source.  An address is a natural number below 2^31 (flash is at         *)
(* 0x10000000 and RAM at 0x20000000 on the RP2040).  A u16 is a number.    *)
(***************************************************************************)
EXTENDS Integers, Sequences, FiniteSets

VARIABLES
    tagLog,     \* the calls of make_tag made so far: [c1, c2, tag]
    mem,        \* the image: the bytes of each of its sections
    strs,       \* the &'static str values placed in the image: [ptr, len, bytes]
    recs,       \* the entry records constructed: what was asked and what was built
    addrs,      \* the entry::Addr statics, in their order in .bi_entries
    tables,     \* the mapping tables (&'static [MappingTableEntry]) placed: [ptr, len]
    header,     \* the Header built by Header::new, with its inputs; NoHeader before
    rd          \* the external reader's position and findings

vars == <<tagLog, mem, strs, recs, addrs, tables, header, rd>>

-----------------------------------------------------------------------------
(* Bounds of the model. *)

\* how many bytes besides 'R' and 'P' make_tag is tried on
MaxByteSample == 5
\* how many calls of make_tag are kept for comparison
MaxTagCalls == 2
\* how many statics (string literals, records, entry addresses) an image of
\* the constructors' specification gets before it is linked
MaxStatics == 3
\* how many ranges a mapping table has before its terminating marker
MaxRanges == 2
\* how many other statics the image of a header has besides its mapping table
MaxOtherStatics == 1

\* the bytes make_tag is tried on: spread over 0..255, with 'R' and 'P'
ByteSamples == {(i * 51) % 256 : i \in 0..MaxByteSample} \cup {82, 80}

-----------------------------------------------------------------------------
(* Bytes and words. *)

\* u16::from_be_bytes: the first byte is the most significant
from_be_bytes(b) == b[1] * 256 + b[2]

\* the little-endian bytes of a u16, as the target stores it
u16_le(x) == <<x % 256, x \div 256>>

\* a u16 read from its little-endian bytes
u16_from_le(b) == b[1] + 256 * b[2]

\* the little-endian bytes of a u32 given most significant byte first
u32_le(w) == <<w[4], w[3], w[2], w[1]>>

\* a u32 (most significant byte first) read from its little-endian bytes
u32_from_le(b) == <<b[4], b[3], b[2], b[1]>>

\* the little-endian bytes of a 32-bit pointer
ptr_le(a) == <<a % 256, (a \div 256) % 256, (a \div 65536) % 256, a \div 16777216>>

\* a 32-bit pointer read from its little-endian bytes
ptr_from_le(b) == b[1] + 256 * b[2] + 65536 * b[3] + 16777216 * b[4]

-----------------------------------------------------------------------------
(* The image.  Three sections, each a sequence of bytes from its base: the  *)
(* header block, the table of entry addresses, and the read-only data the   *)
(* statics and the string literals are placed in.                           *)

\* where the link step puts the sections (flash starts at 0x10000000)
BiHeaderBase == \h10000100
BiEntriesBase == \h10001000
RodataBase == \h10002000

EmptyImage == [bi_header |-> <<>>, bi_entries |-> <<>>, rodata |-> <<>>]
NoHeader == [built |-> FALSE]
Idle == [pc |-> "idle"]

SectionOf(m, a) ==
    IF a >= BiHeaderBase /\ a < BiHeaderBase + Len(m.bi_header) THEN "bi_header"
    ELSE IF a >= BiEntriesBase /\ a < BiEntriesBase + Len(m.bi_entries) THEN "bi_entries"
    ELSE IF a >= RodataBase /\ a < RodataBase + Len(m.rodata) THEN "rodata"
    ELSE "none"

\* the address holds a byte of the image
Mapped(m, a) == SectionOf(m, a) # "none"

\* the byte at an address of the image
Load(m, a) ==
    CASE SectionOf(m, a) = "bi_header" -> m.bi_header[a - BiHeaderBase + 1]
      [] SectionOf(m, a) = "bi_entries" -> m.bi_entries[a - BiEntriesBase + 1]
      [] SectionOf(m, a) = "rodata" -> m.rodata[a - RodataBase + 1]

MappedRange(m, a, n) == \A i \in 0..(n - 1) : Mapped(m, a + i)

LoadBytes(m, a, n) == [i \in 1..n |-> Load(m, a + i - 1)]

\* the padding that brings n up to a multiple of k
Pad(n, k) == (k - (n % k)) % k

Zeros(n) == [i \in 1..n |-> 0]

\* the address the next static of the given alignment gets in .rodata
NextRodata(m, align) == RodataBase + Len(m.rodata) + Pad(Len(m.rodata), align)

\* .rodata with a static of the given bytes and alignment placed at its end
PlaceRodata(m, bytes, align) ==
    [m EXCEPT !.rodata = m.rodata \o Zeros(Pad(Len(m.rodata), align)) \o bytes]

-----------------------------------------------------------------------------
(* lib.rs: tags *)

\* a shift of a u8 by 8 that loses c2: only c1 is left
make_tag_lost_high(c1, c2) == from_be_bytes(<<0, c1>>)

\* the bytes in the order of the parameters: c1 becomes the high byte
make_tag_c1_high(c1, c2) == from_be_bytes(<<c1, c2>>)

\* pub const fn make_tag(c1: u8, c2: u8) -> u16
make_tag(c1, c2) == from_be_bytes(<<c2, c1>>)

\* pub const TAG_RASPBERRY_PI: u16 = make_tag(b'R', b'P')
TAG_RASPBERRY_PI == make_tag(82, 80)

-----------------------------------------------------------------------------
(* lib.rs: the data types and the reserved identifiers *)

\* DataType::IdAndInt = 5
DataType_IdAndInt == 5
\* DataType::IdAndString = 6
DataType_IdAndString == 6
\* the values of #[repr(u16)] enum DataType
DataType == 1..10

ID_RP_PROGRAM_NAME == <<\h02, \h03, \h1c, \h86>>
ID_RP_PROGRAM_VERSION_STRING == <<\h11, \ha9, \hbc, \h3a>>
ID_RP_PROGRAM_BUILD_DATE_STRING == <<\h9d, \ha2, \h22, \h54>>
ID_RP_BINARY_END == <<\h68, \hf4, \h65, \hde>>
ID_RP_PROGRAM_URL == <<\h18, \h56, \h23, \h9a>>
ID_RP_PROGRAM_DESCRIPTION == <<\hb6, \ha0, \h7c, \h19>>
ID_RP_PROGRAM_FEATURE == <<\ha1, \hf4, \hb4, \h53>>
ID_RP_PROGRAM_BUILD_ATTRIBUTE == <<\h42, \h75, \hf0, \hd3>>
ID_RP_SDK_VERSION == <<\h53, \h60, \hb3, \hab>>
ID_RP_PICO_BOARD == <<\hb6, \h3c, \hff, \hbb>>
ID_RP_BOOT2_NAME == <<\h7f, \h88, \h82, \he1>>

-----------------------------------------------------------------------------
(* entry.rs: the records and their layout *)

\* str::as_ptr of a &'static str [ptr, len]: the address of its first byte
as_ptr(name) == name.ptr

\* struct Common { data_type: DataType, tag: u16 }
Common(data_type, tag) == [data_type |-> data_type, tag |-> tag]

\* #[repr(C)] Common: data_type at 0, tag at 2
Common_bytes(h) == u16_le(h.data_type) \o u16_le(h.tag)

\* #[repr(C)] IdAndString: header at 0, id at 4, value (a pointer) at 8
IdAndString_bytes(r) == Common_bytes(r.header) \o u32_le(r.id) \o ptr_le(r.value)

\* #[repr(C)] IdAndInt: header at 0, id at 4, value (a u32) at 8
IdAndInt_bytes(r) == Common_bytes(r.header) \o u32_le(r.id) \o u32_le(r.value)

\* size_of::<IdAndString>() = size_of::<IdAndInt>() on the 32-bit target
EntrySize == 12
\* size_of::<Addr>(): #[repr(transparent)] over *const u32
AddrSize == 4

\* an addr() that points past the Common header, at the id
addr_of_id(self) == self + 4

\* IdAndString::addr(&self): Addr(self as *const Self as *const u32)
IdAndString_addr(self) == self

\* IdAndInt::addr(&self): Addr(self as *const Self as *const u32)
IdAndInt_addr(self) == self

-----------------------------------------------------------------------------
(* lib.rs: the constructors *)

\* program_name with the id of another fact
program_name_wrong_id(name) ==
    [header |-> Common(DataType_IdAndString, TAG_RASPBERRY_PI),
     id |-> ID_RP_PROGRAM_DESCRIPTION,
     value |-> as_ptr(name)]

program_name(name) ==
    [header |-> Common(DataType_IdAndString, TAG_RASPBERRY_PI),
     id |-> ID_RP_PROGRAM_NAME,
     value |-> as_ptr(name)]

program_version_string(name) ==
    [header |-> Common(DataType_IdAndString, TAG_RASPBERRY_PI),
     id |-> ID_RP_PROGRAM_VERSION_STRING,
     value |-> as_ptr(name)]

program_description(name) ==
    [header |-> Common(DataType_IdAndString, TAG_RASPBERRY_PI),
     id |-> ID_RP_PROGRAM_DESCRIPTION,
     value |-> as_ptr(name)]

program_url(name) ==
    [header |-> Common(DataType_IdAndString, TAG_RASPBERRY_PI),
     id |-> ID_RP_PROGRAM_URL,
     value |-> as_ptr(name)]

program_build_date_string(name) ==
    [header |-> Common(DataType_IdAndString, TAG_RASPBERRY_PI),
     id |-> ID_RP_PROGRAM_BUILD_DATE_STRING,
     value |-> as_ptr(name)]

program_feature(name) ==
    [header |-> Common(DataType_IdAndString, TAG_RASPBERRY_PI),
     id |-> ID_RP_PROGRAM_FEATURE,
     value |-> as_ptr(name)]

program_build_attribute(name) ==
    [header |-> Common(DataType_IdAndString, TAG_RASPBERRY_PI),
     id |-> ID_RP_PROGRAM_BUILD_ATTRIBUTE,
     value |-> as_ptr(name)]

boot2_name(name) ==
    [header |-> Common(DataType_IdAndString, TAG_RASPBERRY_PI),
     id |-> ID_RP_BOOT2_NAME,
     value |-> as_ptr(name)]

pico_board(name) ==
    [header |-> Common(DataType_IdAndString, TAG_RASPBERRY_PI),
     id |-> ID_RP_PICO_BOARD,
     value |-> as_ptr(name)]

\* custom_integer with id and value stored in each other's field
custom_integer_swapped(tag, id, value) ==
    [header |-> Common(DataType_IdAndInt, tag),
     id |-> value,
     value |-> id]

custom_integer(tag, id, value) ==
    [header |-> Common(DataType_IdAndInt, tag),
     id |-> id,
     value |-> value]

\* the string constructors, by name
StringCtors ==
    {"program_name", "program_version_string", "program_description",
     "program_url", "program_build_date_string", "program_feature",
     "program_build_attribute", "boot2_name", "pico_board"}

\* the call of the string constructor of the given name
CallStringCtor(c, name) ==
    CASE c = "program_name" -> program_name(name)
      [] c = "program_version_string" -> program_version_string(name)
      [] c = "program_description" -> program_description(name)
      [] c = "program_url" -> program_url(name)
      [] c = "program_build_date_string" -> program_build_date_string(name)
      [] c = "program_feature" -> program_feature(name)
      [] c = "program_build_attribute" -> program_build_attribute(name)
      [] c = "boot2_name" -> boot2_name(name)
      [] c = "pico_board" -> pico_board(name)

-----------------------------------------------------------------------------
(* lib.rs: the mapping table and the header *)

\* core::ptr::null()
null == 0

\* struct MappingTableEntry { source_addr_start, dest_addr_start, dest_addr_end }
MappingTableEntry(source_addr_start, dest_addr_start, dest_addr_end) ==
    [source_addr_start |-> source_addr_start,
     dest_addr_start |-> dest_addr_start,
     dest_addr_end |-> dest_addr_end]

\* the layout with the two destination fields first
MappingTableEntry_bytes_dest_first(e) ==
    ptr_le(e.dest_addr_start) \o ptr_le(e.dest_addr_end) \o ptr_le(e.source_addr_start)

\* #[repr(C)] MappingTableEntry: source_addr_start at 0, dest_addr_start at 4,
\* dest_addr_end at 8
MappingTableEntry_bytes(e) ==
    ptr_le(e.source_addr_start) \o ptr_le(e.dest_addr_start) \o ptr_le(e.dest_addr_end)

\* size_of::<MappingTableEntry>() on the 32-bit target
MappingEntrySize == 12

RECURSIVE Table_bytes(_)
\* a [MappingTableEntry; N]: its elements one after the other
Table_bytes(t) ==
    IF t = <<>> THEN <<>> ELSE MappingTableEntry_bytes(Head(t)) \o Table_bytes(Tail(t))

\* Header::MARKER_START = 0x7188ebf2
MARKER_START == <<\h71, \h88, \heb, \hf2>>
\* Header::MARKER_END = 0xe71aa390
MARKER_END == <<\he7, \h1a, \ha3, \h90>>

\* <[MappingTableEntry]>::as_ptr of a slice [ptr, len]: the address of its
\* first element
slice_as_ptr(slice) == slice.ptr

\* Header::new with the two bounds of the entry table stored in each other's field
Header_new_bounds_swapped(entries_start, entries_end, mapping_table) ==
    [marker_start |-> MARKER_START,
     entries_start |-> entries_end,
     entries_end |-> entries_start,
     mapping_table |-> slice_as_ptr(mapping_table),
     marker_end |-> MARKER_END]

\* Header::new with the two markers stored in each other's field
Header_new_markers_swapped(entries_start, entries_end, mapping_table) ==
    [marker_start |-> MARKER_END,
     entries_start |-> entries_start,
     entries_end |-> entries_end,
     mapping_table |-> slice_as_ptr(mapping_table),
     marker_end |-> MARKER_START]

\* Header::new that takes the end of the slice for its pointer
Header_new_table_end(entries_start, entries_end, mapping_table) ==
    [marker_start |-> MARKER_START,
     entries_start |-> entries_start,
     entries_end |-> entries_end,
     mapping_table |-> mapping_table.ptr + MappingEntrySize * mapping_table.len,
     marker_end |-> MARKER_END]

\* pub const fn new(entries_start, entries_end, mapping_table) -> Self
Header_new(entries_start, entries_end, mapping_table) ==
    [marker_start |-> MARKER_START,
     entries_start |-> entries_start,
     entries_end |-> entries_end,
     mapping_table |-> slice_as_ptr(mapping_table),
     marker_end |-> MARKER_END]

\* #[repr(C)] Header: marker_start at 0, entries_start at 4, entries_end at 8,
\* mapping_table at 12, marker_end at 16
Header_bytes(h) ==
    u32_le(h.marker_start) \o ptr_le(h.entries_start) \o ptr_le(h.entries_end)
        \o ptr_le(h.mapping_table) \o u32_le(h.marker_end)

\* size_of::<Header>() on the 32-bit target
HeaderSize == 20

-----------------------------------------------------------------------------
(* The external reader: what it reads from the image, field by field. *)

ReadU16(m, a) == u16_from_le(LoadBytes(m, a, 2))
ReadU32(m, a) == u32_from_le(LoadBytes(m, a, 4))
ReadPtr(m, a) == ptr_from_le(LoadBytes(m, a, 4))

\* the header block as read from the image
ReadHeader(m, a) ==
    [marker_start |-> ReadU32(m, a),
     entries_start |-> ReadPtr(m, a + 4),
     entries_end |-> ReadPtr(m, a + 8),
     mapping_table |-> ReadPtr(m, a + 12),
     marker_end |-> ReadU32(m, a + 16)]

\* the number of entry addresses between the two bounds of the header
EntryCount(h) == (h.entries_end - h.entries_start) \div AddrSize

\* the record at an address, read as its data_type says
ReadEntry(m, p) ==
    LET h == Common(ReadU16(m, p), ReadU16(m, p + 2)) IN
    IF h.data_type = DataType_IdAndInt
    THEN [header |-> h, id |-> ReadU32(m, p + 4), value |-> ReadU32(m, p + 8)]
    ELSE IF h.data_type = DataType_IdAndString
    THEN [header |-> h, id |-> ReadU32(m, p + 4), value |-> ReadPtr(m, p + 8)]
    ELSE [header |-> h]

RECURSIVE ReadCStr(_, _)
\* the bytes from an address up to the first null byte, or to the end of the
\* image when there is none
ReadCStr(m, a) ==
    IF ~Mapped(m, a) \/ Load(m, a) = 0 THEN <<>>
    ELSE <<Load(m, a)>> \o ReadCStr(m, a + 1)

\* the mapping table entry at an address
ReadMapping(m, a) ==
    MappingTableEntry(ReadPtr(m, a), ReadPtr(m, a + 4), ReadPtr(m, a + 8))

\* the terminating marker: all three fields null
IsSentinel(e) ==
    e.source_addr_start = null /\ e.dest_addr_start = null /\ e.dest_addr_end = null

\* the destination range of the entry holds the address
InRange(e, a) == e.dest_addr_start <= a /\ a < e.dest_addr_end

\* the address in the image of a run-time address the entry covers
Translate(e, a) == e.source_addr_start + (a - e.dest_addr_start)

-----------------------------------------------------------------------------
(* The calls of make_tag. *)

Init ==
    /\ tagLog = {}
    /\ mem = EmptyImage
    /\ strs = {}
    /\ recs = <<>>
    /\ addrs = <<>>
    /\ tables = {}
    /\ header = NoHeader
    /\ rd = Idle

CallMakeTag(c1, c2) ==
    /\ Cardinality(tagLog) < MaxTagCalls
    /\ tagLog' = tagLog \cup {[c1 |-> c1, c2 |-> c2, tag |-> make_tag(c1, c2)]}
    /\ UNCHANGED <<mem, strs, recs, addrs, tables, header, rd>>

NextTag == \E c1 \in ByteSamples, c2 \in ByteSamples : CallMakeTag(c1, c2)

SpecTag == Init /\ [][NextTag]_vars

\* C1 (as stated): make_tag(c1, c2) has c1 in the high byte and c2 in the low
\* byte, make_tag(c1, c2) = c1 * 256 + c2.
C1_TagChar1High == \A c \in tagLog : c.tag = c.c1 * 256 + c.c2

\* C1 (amended): make_tag(c1, c2) has c2 in the high byte and c1 in the low
\* byte, make_tag(c1, c2) = c2 * 256 + c1, so that the tag's two bytes in the
\* little-endian image read c1 then c2.
C1_TagChar2High ==
    \A c \in tagLog :
        /\ c.tag = c.c2 * 256 + c.c1
        /\ c.tag \div 256 = c.c2
        /\ c.tag % 256 = c.c1
        /\ u16_le(c.tag) = <<c.c1, c.c2>>

\* a call with two different bytes has been made
C1_Witness == \E c \in tagLog : c.c1 # c.c2 /\ c.c1 # 0 /\ c.c2 # 0

\* C2: make_tag is injective: two calls with different byte pairs never give
\* the same tag, no other of the 256 x 256 byte pairs gives the tag of a
\* call, every tag is a 16-bit value, and a call gives TAG_RASPBERRY_PI
\* exactly when its bytes are 'R' and 'P'.
C2_TagInjective ==
    /\ \A c, d \in tagLog : c.tag = d.tag => (c.c1 = d.c1 /\ c.c2 = d.c2)
    /\ Cardinality(tagLog) = 1 =>
            \A c \in tagLog : \A d1 \in 0..255, d2 \in 0..255 :
                make_tag(d1, d2) = c.tag => (d1 = c.c1 /\ d2 = c.c2)
    /\ \A c \in tagLog : c.tag \in 0..65535
    /\ \A c \in tagLog : (c.tag = TAG_RASPBERRY_PI) <=> (c.c1 = 82 /\ c.c2 = 80)

\* two calls with different pairs were made, one of them with 'R', 'P', the
\* other with the same bytes the other way round
C2_Witness ==
    \E c, d \in tagLog :
        /\ c.c1 = 82 /\ c.c2 = 80 /\ c.tag = TAG_RASPBERRY_PI
        /\ d.c1 = 80 /\ d.c2 = 82

-----------------------------------------------------------------------------
(* The link step (memory.x): the symbols it defines. *)

\* __bi_entries_start: the start of .bi_entries
bi_entries_start == BiEntriesBase

\* __bi_entries_end: the location counter after the last input of .bi_entries
bi_entries_end(m) == BiEntriesBase + Len(m.bi_entries)

\* __sidata, __sdata, __edata: .data in flash, and its bounds in RAM (the
\* values of the specification's scenario)
sidata == \h10000000
sdata == \h20000000
edata == \h20000100

\* static MAPPING_TABLE: [bi::MappingTableEntry; 2]
MAPPING_TABLE ==
    <<MappingTableEntry(sidata, sdata, edata), MappingTableEntry(null, null, null)>>

-----------------------------------------------------------------------------
(* Images built with the constructors: string literals, records made from   *)
(* them, entry addresses taken of the records, then the header of the       *)
(* example; the reader then walks the entry table.                          *)

\* the string values the constructors are tried on: "", "A\0", "AB"
StrSamples == {<<>>, <<65, 0>>, <<65, 66>>}
\* the inputs custom_integer is tried on
TagSamples == {TAG_RASPBERRY_PI, make_tag(88, 89)}
IdSamples == {ID_RP_BINARY_END, <<0, 0, 0, 1>>}
ValueSamples == {<<\h10, \h00, \h40, \h00>>, <<\hff, \hfe, \hfd, \hfc>>}

NStatics == Cardinality(strs) + Len(recs) + Len(addrs)

\* a string literal is placed in .rodata
PlaceStr(bytes) ==
    /\ ~header.built
    /\ NStatics < MaxStatics
    /\ strs' = strs \cup
            {[ptr |-> NextRodata(mem, 1), len |-> Len(bytes), bytes |-> bytes]}
    /\ mem' = PlaceRodata(mem, bytes, 1)
    /\ UNCHANGED <<tagLog, recs, addrs, tables, header, rd>>

\* static X: IdAndString = bi::<constructor>(<string>)
ConstructString(c, s) ==
    /\ ~header.built
    /\ NStatics < MaxStatics
    /\ LET r == CallStringCtor(c, [ptr |-> s.ptr, len |-> s.len]) IN
        /\ recs' = Append(recs, [ctor |-> c, kind |-> "IdAndString", in |-> s,
                                 out |-> r, at |-> NextRodata(mem, 4)])
        /\ mem' = PlaceRodata(mem, IdAndString_bytes(r), 4)
    /\ UNCHANGED <<tagLog, strs, addrs, tables, header, rd>>

\* static X: IdAndInt = bi::custom_integer(tag, id, value)
ConstructInt(tag, id, value) ==
    /\ ~header.built
    /\ NStatics < MaxStatics
    /\ LET r == custom_integer(tag, id, value) IN
        /\ recs' = Append(recs, [ctor |-> "custom_integer", kind |-> "IdAndInt",
                                 in |-> [tag |-> tag, id |-> id, value |-> value],
                                 out |-> r, at |-> NextRodata(mem, 4)])
        /\ mem' = PlaceRodata(mem, IdAndInt_bytes(r), 4)
    /\ UNCHANGED <<tagLog, strs, addrs, tables, header, rd>>

\* the addr() of the record
AddrOf(rec) ==
    IF rec.kind = "IdAndString" THEN IdAndString_addr(rec.at) ELSE IdAndInt_addr(rec.at)

\* #[link_section = ".bi_entries"] static X_ADDR: Addr = X.addr()
TakeAddr(i) ==
    /\ ~header.built
    /\ NStatics < MaxStatics
    /\ addrs' = Append(addrs, [of |-> i, addr |-> AddrOf(recs[i]),
                               at |-> bi_entries_end(mem)])
    /\ mem' = [mem EXCEPT !.bi_entries = @ \o ptr_le(AddrOf(recs[i]))]
    /\ UNCHANGED <<tagLog, strs, recs, tables, header, rd>>

\* static PICOTOOL_META: bi::Header =
\*     bi::Header::new(&__bi_entries_start, &__bi_entries_end, &MAPPING_TABLE)
LinkHeader ==
    /\ ~header.built
    /\ LET slice == [ptr |-> NextRodata(mem, 4), len |-> Len(MAPPING_TABLE)]
           m1 == PlaceRodata(mem, Table_bytes(MAPPING_TABLE), 4)
           h == Header_new(bi_entries_start, bi_entries_end(m1), slice)
       IN
        /\ tables' = tables \cup {[ptr |-> slice.ptr, len |-> slice.len,
                                   entries |-> MAPPING_TABLE]}
        /\ header' = [built |-> TRUE, entries_start |-> bi_entries_start,
                      entries_end |-> bi_entries_end(m1), mapping_table |-> slice,
                      out |-> h]
        /\ mem' = [m1 EXCEPT !.bi_header = Header_bytes(h)]
    /\ UNCHANGED <<tagLog, strs, recs, addrs>>
    /\ UNCHANGED rd

\* the reader finds the header block by its two markers and takes the bounds
\* of the entry table from it
ReaderOpen ==
    /\ header.built
    /\ rd.pc = "idle"
    /\ LET h == ReadHeader(mem, BiHeaderBase) IN
        rd' = IF h.marker_start = MARKER_START /\ h.marker_end = MARKER_END
              THEN [pc |-> "entries", hdr |-> h, count |-> EntryCount(h),
                    i |-> 0, seen |-> <<>>]
              ELSE [pc |-> "absent"]
    /\ UNCHANGED <<tagLog, mem, strs, recs, addrs, tables, header>>

\* the reader reads the next entry address of the table and the record it
\* points to
ReaderNext ==
    /\ rd.pc = "entries"
    /\ rd.i < rd.count
    /\ LET p == ReadPtr(mem, rd.hdr.entries_start + AddrSize * rd.i) IN
        rd' = [rd EXCEPT !.i = @ + 1,
                         !.seen = Append(@, [p |-> p, entry |-> ReadEntry(mem, p)])]
    /\ UNCHANGED <<tagLog, mem, strs, recs, addrs, tables, header>>

NextEntry ==
    \/ \E bytes \in StrSamples : PlaceStr(bytes)
    \/ \E c \in StringCtors, s \in strs : ConstructString(c, s)
    \/ \E tag \in TagSamples, id \in IdSamples, value \in ValueSamples :
            ConstructInt(tag, id, value)
    \/ \E i \in 1..Len(recs) : TakeAddr(i)
    \/ LinkHeader
    \/ ReaderOpen
    \/ ReaderNext

SpecEntry == Init /\ [][NextEntry]_vars

\* C3: every record built by a constructor carries the data_type of its shape
\* and reads back from the image as its inputs: custom_integer(tag, id, value)
\* gives data_type 5 and the (tag, id, value) given; a string constructor gives
\* data_type 6 and a value that is the address of the first byte of the
\* caller's string, whose bytes are the caller's, none changed or added: a
\* constructor's step adds the twelve bytes of its record to the image and
\* nothing else.
C3_RecordRoundTrip ==
    /\ [](\A k \in 1..Len(recs) :
            LET rec == recs[k]
                e == ReadEntry(mem, rec.at)
            IN
            IF rec.kind = "IdAndInt"
            THEN /\ rec.out.header.data_type = 5
                 /\ ReadU16(mem, rec.at) = 5
                 /\ e.header.tag = rec.in.tag
                 /\ e.id = rec.in.id
                 /\ e.value = rec.in.value
            ELSE /\ rec.out.header.data_type = 6
                 /\ ReadU16(mem, rec.at) = 6
                 /\ e.value = rec.in.ptr
                 /\ LoadBytes(mem, rec.in.ptr, rec.in.len) = rec.in.bytes)
    /\ [][Len(recs') = Len(recs) + 1 =>
            /\ strs' = strs
            /\ Len(mem'.rodata) =
                    Len(mem.rodata) + Pad(Len(mem.rodata), 4) + EntrySize
            /\ SubSeq(mem'.rodata, 1, Len(mem.rodata)) = mem.rodata]_vars

\* an integer record with an id and a value of different bytes, and a string
\* record of a string that has no terminator, are in the image
C3_Witness ==
    \E j, k \in 1..Len(recs) :
        /\ recs[j].kind = "IdAndInt"
        /\ recs[j].in.id = ID_RP_BINARY_END
        /\ recs[j].in.value = <<\hff, \hfe, \hfd, \hfc>>
        /\ recs[j].in.tag = make_tag(88, 89)
        /\ recs[k].kind = "IdAndString"
        /\ recs[k].in.bytes = <<65, 66>>

\* the reserved identifier of the fact a string constructor is named for
C8_IdOf(c) ==
    CASE c = "program_name" -> ID_RP_PROGRAM_NAME
      [] c = "program_version_string" -> ID_RP_PROGRAM_VERSION_STRING
      [] c = "program_description" -> ID_RP_PROGRAM_DESCRIPTION
      [] c = "program_url" -> ID_RP_PROGRAM_URL
      [] c = "program_build_date_string" -> ID_RP_PROGRAM_BUILD_DATE_STRING
      [] c = "program_feature" -> ID_RP_PROGRAM_FEATURE
      [] c = "program_build_attribute" -> ID_RP_PROGRAM_BUILD_ATTRIBUTE
      [] c = "boot2_name" -> ID_RP_BOOT2_NAME
      [] c = "pico_board" -> ID_RP_PICO_BOARD

\* C8: the record of each named string constructor has the tag
\* TAG_RASPBERRY_PI and the reserved identifier of the fact the constructor
\* is named for, and the records of two different constructors never have
\* the same identifier.
C8_ReservedIds ==
    /\ \A k \in 1..Len(recs) :
            recs[k].kind = "IdAndString" =>
                LET e == ReadEntry(mem, recs[k].at) IN
                /\ e.header.data_type = DataType_IdAndString
                /\ e.header.tag = TAG_RASPBERRY_PI
                /\ e.id = C8_IdOf(recs[k].ctor)
    /\ \A j, k \in 1..Len(recs) :
            (recs[j].kind = "IdAndString" /\ recs[k].kind = "IdAndString"
                /\ recs[j].ctor # recs[k].ctor)
            => ReadU32(mem, recs[j].at + 4) # ReadU32(mem, recs[k].at + 4)

\* the records of program_name and of program_description are both in the image
C8_Witness ==
    \E j, k \in 1..Len(recs) :
        /\ recs[j].ctor = "program_name"
        /\ recs[k].ctor = "program_description"

-----------------------------------------------------------------------------
(* Headers built by Header::new from any inputs, and the reader's lookup of *)
(* a run-time address in the mapping table of the header.                   *)

\* the ranges mapping tables are made of: .data of the example, the range
\* next to it in RAM, and a range that overlaps both
RangeSamples ==
    {MappingTableEntry(sidata, sdata, edata),
     MappingTableEntry(\h10000400, \h20000100, \h20000200),
     MappingTableEntry(\h10003000, \h20000080, \h20000180)}

RECURSIVE SeqsUpTo(_, _)
\* the sequences of at most n elements of S
SeqsUpTo(S, n) ==
    IF n = 0 THEN {<<>>}
    ELSE LET shorter == SeqsUpTo(S, n - 1) IN
         shorter \cup {Append(t, x) : t \in shorter, x \in S}

\* the mapping tables a caller may hand to Header::new: any ranges, with the
\* terminating marker after them or without it
TableSamples ==
    {t \o tail : t \in SeqsUpTo(RangeSamples, MaxRanges),
                 tail \in {<<>>, <<MappingTableEntry(null, null, null)>>}}

\* other statics of the image: twelve null bytes, and twelve bytes that read
\* as a range
DataSamples ==
    {Zeros(12), <<1, 0, 0, 16, 0, 0, 0, 32, 0, 2, 0, 32>>}

\* the references a caller may hand to Header::new as the bounds
BoundSamples == {BiEntriesBase, BiEntriesBase + 4, BiEntriesBase + 8}

\* the run-time addresses looked up
QuerySamples == {\h20000050, \h200000ff, \h20000100, \h20000200, \h1fffffff}

\* static T: [MappingTableEntry; N] = [...]
PlaceTable(t) ==
    /\ ~header.built
    /\ tables = {}
    /\ tables' = {[ptr |-> NextRodata(mem, 4), len |-> Len(t), entries |-> t]}
    /\ mem' = PlaceRodata(mem, Table_bytes(t), 4)
    /\ UNCHANGED <<tagLog, strs, recs, addrs, header, rd>>

\* another static, placed in .rodata before or after the table
PlaceData(bytes) ==
    /\ ~header.built
    /\ Cardinality(strs) < MaxOtherStatics
    /\ strs' = strs \cup
            {[ptr |-> NextRodata(mem, 1), len |-> Len(bytes), bytes |-> bytes]}
    /\ mem' = PlaceRodata(mem, bytes, 1)
    /\ UNCHANGED <<tagLog, recs, addrs, tables, header, rd>>

\* static H: Header = Header::new(entries_start, entries_end, mapping_table)
HeaderNew(entries_start, entries_end, t) ==
    /\ ~header.built
    /\ LET slice == [ptr |-> t.ptr, len |-> t.len]
           h == Header_new(entries_start, entries_end, slice)
       IN
        /\ header' = [built |-> TRUE, entries_start |-> entries_start,
                      entries_end |-> entries_end, mapping_table |-> slice,
                      out |-> h]
        /\ mem' = [mem EXCEPT !.bi_header = Header_bytes(h)]
    /\ UNCHANGED <<tagLog, strs, recs, addrs, tables, rd>>

\* the reader starts to look a run-time address up, at the first entry of
\* the mapping table
ReaderLookup(a) ==
    /\ rd.pc = "entries"
    /\ rd' = [pc |-> "walk", hdr |-> rd.hdr, a |-> a,
              cursor |-> rd.hdr.mapping_table]
    /\ UNCHANGED <<tagLog, mem, strs, recs, addrs, tables, header>>

\* the reader reads the entry at its cursor: it stops at the terminating
\* marker, or with the translation when the entry's range holds the address,
\* and goes on to the next entry otherwise; it fails when the entry is not
\* in the image
ReaderWalk ==
    /\ rd.pc = "walk"
    /\ rd' =
        IF ~MappedRange(mem, rd.cursor, MappingEntrySize)
        THEN [pc |-> "done", hdr |-> rd.hdr, a |-> rd.a, cursor |-> rd.cursor,
              result |-> [kind |-> "fault"]]
        ELSE LET e == ReadMapping(mem, rd.cursor) IN
             IF IsSentinel(e)
             THEN [pc |-> "done", hdr |-> rd.hdr, a |-> rd.a, cursor |-> rd.cursor,
                   result |-> [kind |-> "none"]]
             ELSE IF InRange(e, rd.a)
             THEN [pc |-> "done", hdr |-> rd.hdr, a |-> rd.a, cursor |-> rd.cursor,
                   result |-> [kind |-> "mapped", addr |-> Translate(e, rd.a)]]
             ELSE [rd EXCEPT !.cursor = @ + MappingEntrySize]
    /\ UNCHANGED <<tagLog, mem, strs, recs, addrs, tables, header>>

NextHeader ==
    \/ \E t \in TableSamples : PlaceTable(t)
    \/ \E bytes \in DataSamples : PlaceData(bytes)
    \/ \E es \in BoundSamples, ee \in BoundSamples, t \in tables : HeaderNew(es, ee, t)
    \/ ReaderOpen
    \/ \E a \in QuerySamples : ReaderLookup(a)
    \/ ReaderWalk

SpecHeader == Init /\ [][NextHeader]_vars

\* the mapping table the header was built from
TableOf(h) == CHOOSE t \in tables : t.ptr = h.mapping_table.ptr

\* the table's ranges: its entries that are not the terminating marker
RangesOf(t) == {k \in 1..t.len : ~IsSentinel(t.entries[k])}

\* the table's last entry is the terminating marker and no entry before it is
EndsWithSentinel(t) ==
    /\ t.len >= 1
    /\ IsSentinel(t.entries[t.len])
    /\ RangesOf(t) = 1..(t.len - 1)

\* no two ranges of the table have an address in common
NonOverlapping(t) ==
    \A j, k \in RangesOf(t) :
        j # k => \/ t.entries[j].dest_addr_end <= t.entries[k].dest_addr_start
                 \/ t.entries[k].dest_addr_end <= t.entries[j].dest_addr_start

\* C4: the header Header::new returns reads back from the image with its
\* entries_start and entries_end exactly the inputs, its mapping_table the
\* address of the first element of the given table, and its markers
\* 0x7188ebf2 and 0xe71aa390 whatever the inputs.
C4_HeaderRoundTrip ==
    header.built =>
        LET h == ReadHeader(mem, BiHeaderBase)
            t == TableOf(header)
        IN
        /\ Len(mem.bi_header) = HeaderSize
        /\ h.entries_start = header.entries_start
        /\ h.entries_end = header.entries_end
        /\ h.mapping_table = t.ptr
        /\ t.len >= 1 =>
                LoadBytes(mem, h.mapping_table, MappingEntrySize)
                    = MappingTableEntry_bytes(t.entries[1])
        /\ h.marker_start = <<\h71, \h88, \heb, \hf2>>
        /\ h.marker_end = <<\he7, \h1a, \ha3, \h90>>
        /\ header.out = h

\* a header was built with an end below its start and a table of two ranges
\* placed after another static
C4_Witness ==
    /\ header.built
    /\ header.entries_end < header.entries_start
    /\ header.mapping_table.len = 2
    /\ header.mapping_table.ptr > RodataBase

\* C5: in a table of non-overlapping ranges followed by the terminating
\* marker, at most one range holds a run-time address a, and for that range
\* the reader's translation is source_addr_start + (a - dest_addr_start); with
\* the one range {0x10000000, 0x20000000, 0x20000100}, 0x20000050 resolves to
\* 0x10000050.
C5_Translation ==
    (rd.pc = "done" /\ EndsWithSentinel(TableOf(header))
        /\ NonOverlapping(TableOf(header)))
    => LET t == TableOf(header)
           at(k) == ReadMapping(mem, rd.hdr.mapping_table + MappingEntrySize * (k - 1))
           hits == {k \in RangesOf(t) : InRange(at(k), rd.a)}
       IN
       /\ Cardinality(hits) <= 1
       /\ \A k \in RangesOf(t) : at(k) = t.entries[k]
       /\ \A k \in hits :
            /\ rd.result.kind = "mapped"
            /\ rd.result.addr =
                t.entries[k].source_addr_start + (rd.a - t.entries[k].dest_addr_start)
       /\ (t.entries = <<MappingTableEntry(\h10000000, \h20000000, \h20000100),
                         MappingTableEntry(0, 0, 0)>>
            /\ rd.a = \h20000050)
          => rd.result = [kind |-> "mapped", addr |-> \h10000050]

\* the reader has resolved an address of the second of two adjacent ranges
C5_Witness ==
    /\ rd.pc = "done"
    /\ TableOf(header).len = 3
    /\ EndsWithSentinel(TableOf(header))
    /\ NonOverlapping(TableOf(header))
    /\ rd.a = \h20000100
    /\ rd.result = [kind |-> "mapped", addr |-> \h10000400]

\* what C6 says of a header and a finished lookup: the table ends with the
\* terminating marker, the reader has stopped inside the table, and an
\* address outside every range has no mapping
C6_Terminated(t) ==
    /\ EndsWithSentinel(t)
    /\ rd.pc = "done" =>
        /\ rd.cursor >= t.ptr
        /\ rd.cursor + MappingEntrySize <= t.ptr + MappingEntrySize * t.len
        /\ rd.result.kind # "fault"
        /\ (\A k \in RangesOf(t) : ~InRange(t.entries[k], rd.a))
            => /\ rd.result = [kind |-> "none"]
               /\ IsSentinel(ReadMapping(mem, rd.cursor))

\* C6 (as stated): the mapping table of every header built by Header::new is
\* terminated by an entry of three null fields; the reader stops at the first
\* such entry without reading past the end of the table, and reports no
\* mapping for an address outside every range.
C6_EveryHeaderTerminated == header.built => C6_Terminated(TableOf(header))

\* C6 (amended): Header::new stores the address of the table it is given and
\* does not look at the table.  For a header built from a table whose last
\* entry is the terminating marker of three null fields, as MAPPING_TABLE of
\* the example is, the reader stops at the first such entry without reading
\* past the end of the table, and reports no mapping for an address outside
\* every range.
C6_TerminatedWhenGiven ==
    /\ EndsWithSentinel([ptr |-> 0, len |-> Len(MAPPING_TABLE), entries |-> MAPPING_TABLE])
    /\ (header.built /\ EndsWithSentinel(TableOf(header)))
        => C6_Terminated(TableOf(header))

\* the reader has found no mapping for 0x20000200 in the table of the one
\* range [0x20000000, 0x20000100) and its marker
C6_Witness ==
    /\ rd.pc = "done"
    /\ TableOf(header).entries = MAPPING_TABLE
    /\ rd.a = \h20000200
    /\ rd.result = [kind |-> "none"]
    /\ rd.cursor = TableOf(header).ptr + MappingEntrySize

-----------------------------------------------------------------------------
(* The example firmware (main.rs): its nine records, its nine entry         *)
(* addresses, its mapping table and its header.                             *)

\* the values env!() may have at build time: "" and "1.0"
EnvSamples == {<<>>, <<49, 46, 48>>}

\* "Git hash ", "Git version ", "Raspberry Pi Pico", "W25Q080"
GIT_HASH == <<71, 105, 116, 32, 104, 97, 115, 104, 32>>
GIT_VERSION == <<71, 105, 116, 32, 118, 101, 114, 115, 105, 111, 110, 32>>
PICO_TEXT == <<82, 97, 115, 112, 98, 101, 114, 114, 121, 32, 80, 105, 32, 80, 105, 99, 111>>
W25Q080_TEXT == <<87, 50, 53, 81, 48, 56, 48>>

\* concat!(text, "\0")
concat_nul(text) == text \o <<0>>

\* macro_rules! program_name_from_cargo: the static PROGRAM_NAME_ADDR and the
\* static PROGRAM_NAME it is the address of
program_name_from_cargo(env) ==
    [addr |-> "PROGRAM_NAME_ADDR", value |-> "PROGRAM_NAME",
     ctor |-> "program_name", text |-> concat_nul(env)]

\* macro_rules! program_feature: in mod $label, the static ADDR and the static
\* VALUE it is the address of
program_feature_macro(label, feature) ==
    [addr |-> label, value |-> label,
     ctor |-> "program_name", text |-> concat_nul(feature)]

\* the record statics of main.rs, in the order of the source; env is the
\* value of the env!() of the one to be placed
ExampleRecords(env) ==
    <<program_feature_macro("feature_x", GIT_HASH \o env),
      program_feature_macro("feature_y", GIT_VERSION \o env),
      program_name_from_cargo(env),
      [value |-> "PROGRAM_URL", ctor |-> "program_url", text |-> concat_nul(env)],
      [value |-> "PROGRAM_VERSION_STRING", ctor |-> "program_version_string",
       text |-> concat_nul(env)],
      [value |-> "PROGRAM_DESCRIPTION", ctor |-> "program_description",
       text |-> concat_nul(env)],
      [value |-> "PROGRAM_BUILD_ATTRIBUTE", ctor |-> "program_build_attribute",
       text |-> concat_nul(env)],
      [value |-> "PICO_BOARD", ctor |-> "pico_board", text |-> PICO_TEXT \o <<0>>],
      [value |-> "BOOT2_NAME", ctor |-> "boot2_name", text |-> W25Q080_TEXT \o <<0>>]>>

\* the records whose string has an env!() in it
UsesEnv == 1..7

\* the statics of .bi_entries in main.rs, in the order of the source, each
\* with the record whose addr() it holds
ExampleAddrs ==
    <<"PROGRAM_VERSION_STRING", "feature_x", "feature_y", "PROGRAM_DESCRIPTION",
      "PROGRAM_URL", "PROGRAM_BUILD_ATTRIBUTE", "PICO_BOARD", "BOOT2_NAME",
      program_name_from_cargo(<<>>).value>>

\* the number of records, and of entry addresses, of main.rs
NExample == 9

\* the next record static of main.rs: its string literal, then the record
ExPlaceRecord(env) ==
    /\ Len(recs) < NExample
    /\ (Len(recs) + 1 \in UsesEnv \/ env = <<>>)
    /\ LET item == ExampleRecords(env)[Len(recs) + 1]
           s == [ptr |-> NextRodata(mem, 1), len |-> Len(item.text), bytes |-> item.text]
           m1 == PlaceRodata(mem, item.text, 1)
           r == CallStringCtor(item.ctor, [ptr |-> s.ptr, len |-> s.len])
       IN
        /\ strs' = strs \cup {s}
        /\ recs' = Append(recs, [ctor |-> item.ctor, kind |-> "IdAndString", in |-> s,
                                 out |-> r, at |-> NextRodata(m1, 4),
                                 name |-> item.value])
        /\ mem' = PlaceRodata(m1, IdAndString_bytes(r), 4)
    /\ UNCHANGED <<tagLog, addrs, tables, header, rd>>

\* the next static of .bi_entries of main.rs, once its record has its address
ExPlaceAddr ==
    /\ Len(addrs) < NExample
    /\ \E i \in 1..Len(recs) :
        /\ recs[i].name = ExampleAddrs[Len(addrs) + 1]
        /\ addrs' = Append(addrs, [of |-> i, addr |-> AddrOf(recs[i]),
                                   at |-> bi_entries_end(mem)])
        /\ mem' = [mem EXCEPT !.bi_entries = @ \o ptr_le(AddrOf(recs[i]))]
    /\ UNCHANGED <<tagLog, strs, recs, tables, header, rd>>

\* MAPPING_TABLE and PICOTOOL_META, once every other static is placed
ExLink ==
    /\ Len(recs) = NExample
    /\ Len(addrs) = NExample
    /\ LinkHeader

NextExample ==
    \/ \E env \in EnvSamples : ExPlaceRecord(env)
    \/ ExPlaceAddr
    \/ ExLink
    \/ ReaderOpen
    \/ ReaderNext

SpecExample == Init /\ [][NextExample]_vars

\* the entries the reader has seen that have the given id
SeenWithId(id) == {k \in 1..Len(rd.seen) : rd.seen[k].entry.id = id}

\* C9: each invocation of program_feature! gives one record and one entry
\* address for it, and the record is a feature entry: data_type IdAndString,
\* tag TAG_RASPBERRY_PI, id ID_RP_PROGRAM_FEATURE, value pointing at the
\* feature text followed by a null byte; so the table of the example has one
\* entry with id ID_RP_PROGRAM_NAME and two with id ID_RP_PROGRAM_FEATURE.
C9_FeatureMacro ==
    /\ \A k \in 1..Len(recs) :
            recs[k].name \in {"feature_x", "feature_y"} =>
                LET e == ReadEntry(mem, recs[k].at) IN
                /\ e.header.data_type = DataType_IdAndString
                /\ e.header.tag = TAG_RASPBERRY_PI
                /\ e.id = ID_RP_PROGRAM_FEATURE
                /\ concat_nul(ReadCStr(mem, e.value)) = recs[k].in.bytes
    /\ header.built =>
            \A label \in {"feature_x", "feature_y"} :
                /\ Cardinality({k \in 1..Len(recs) : recs[k].name = label}) = 1
                /\ Cardinality({j \in 1..Len(addrs) : recs[addrs[j].of].name = label}) = 1
    /\ (rd.pc = "entries" /\ rd.i = rd.count) =>
            /\ Cardinality(SeenWithId(ID_RP_PROGRAM_NAME)) = 1
            /\ Cardinality(SeenWithId(ID_RP_PROGRAM_FEATURE)) = 2

\* the entry addresses of the table that point at the record
SlotsOf(k) ==
    {j \in 0..(EntryCount(ReadHeader(mem, BiHeaderBase)) - 1) :
        ReadPtr(mem, BiEntriesBase + AddrSize * j) = recs[k].at}

\* the records the entry address of the table points at
RecordsAt(j) ==
    {k \in 1..Len(recs) : recs[k].at = ReadPtr(mem, BiEntriesBase + AddrSize * j)}

\* C10: the Addr a record's addr() gives is the address of that record, so
\* that what is read through it first is the record's data_type; and in the
\* linked example every entry address of .bi_entries points at exactly one
\* record, an IdAndString or an IdAndInt, and every record is pointed at by
\* exactly one entry address.
C10_TableMembership ==
    /\ \A j \in 1..Len(addrs) :
            LET p == ReadPtr(mem, addrs[j].at) IN
            /\ addrs[j].addr = recs[addrs[j].of].at
            /\ p = recs[addrs[j].of].at
            /\ ReadU16(mem, p) = recs[addrs[j].of].out.header.data_type
            /\ LoadBytes(mem, p, EntrySize) = IdAndString_bytes(recs[addrs[j].of].out)
    /\ header.built =>
            /\ EntryCount(ReadHeader(mem, BiHeaderBase)) = NExample
            /\ Len(recs) = NExample
            /\ \A j \in 0..(EntryCount(ReadHeader(mem, BiHeaderBase)) - 1) :
                    /\ Cardinality(RecordsAt(j)) = 1
                    /\ \A k \in RecordsAt(j) :
                            ReadU16(mem, recs[k].at)
                                \in {DataType_IdAndString, DataType_IdAndInt}
            /\ \A k \in 1..Len(recs) : Cardinality(SlotsOf(k)) = 1

\* the reader has walked the whole table of the linked example
C10_Witness ==
    /\ header.built
    /\ rd.pc = "entries"
    /\ rd.i = NExample
    /\ \A k \in 1..NExample : rd.seen[k].entry.header.data_type = DataType_IdAndString

=============================================================================
